---- MODULE Spec2Model ----
(***************************************************************************)
(* Model of the Instagram Reels downloader bot (src/main.py): the link     *)
(* extractor, the session store user_sessions, the shared scratch          *)
(* directory DOWNLOAD_DIR, and the three message handlers handle_reel_url, *)
(* process_download and restart_flow, run by the transport's worker        *)
(* threads.                                                                *)
(*                                                                         *)
(* Strings are sequences of one-character strings, so that the Python      *)
(* string operations the code uses (split, strip, endswith, in, find) are  *)
(* computed character by character.                                        *)
(*                                                                         *)
(* Spec is the single-flight regime that section 5 of the specification    *)
(* assumes: a message is taken only when no handler is under way.          *)
(* SpecExtract applies the link extractor alone to URLs built from their   *)
(* parts.                                                                  *)
(* A message "reported" or "sent" is a message handed to the chat          *)
(* transport; the call may itself raise, which the model follows.          *)
(*                                                                         *)
(* Lines 139-142 of src/main.py leave the call next( unclosed.  The model  *)
(* takes the lookup as the generator it wraps: it yields a file name that  *)
(* ends with '.mp4' and contains the shortcode, and when there is none the *)
(* lookup raises (StopIteration from next, or the FileNotFoundError of     *)
(* line 144), which is an Exception either way.                            *)
(***************************************************************************)
EXTENDS Integers, Sequences, FiniteSets, TLC

(***************************************************************************)
(* Python string operations                                                *)
(***************************************************************************)

\* s[i:] with a 1-based i
Drop(s, i) ==
    SubSeq(s, i, Len(s))

\* s[:n]
Take(s, n) ==
    SubSeq(s, 1, n)

\* sub occurs in s at the 1-based position i
OccursAt(s, sub, i) ==
    /\ i >= 1
    /\ i + Len(sub) - 1 <= Len(s)
    /\ SubSeq(s, i, i + Len(sub) - 1) = sub

\* str.find, 1-based; 0 when sub does not occur
Find(s, sub) ==
    LET hits == {i \in 1..(Len(s) + 1) : OccursAt(s, sub, i)}
    IN  IF hits = {} THEN 0 ELSE CHOOSE i \in hits : \A j \in hits : i <= j

\* sub in s
Contains(s, sub) ==
    Find(s, sub) # 0

\* s.endswith(suf)
EndsWith(s, suf) ==
    /\ Len(suf) <= Len(s)
    /\ SubSeq(s, Len(s) - Len(suf) + 1, Len(s)) = suf

\* s.split(sep)[0]
SplitHead(s, sep) ==
    IF Find(s, sep) = 0 THEN s ELSE Take(s, Find(s, sep) - 1)

\* what follows the first occurrence of sep in s (sep occurs in s)
SplitRest(s, sep) ==
    Drop(s, Find(s, sep) + Len(sep))

\* s.split(sep)[1], for a sep that occurs in s
SplitSecond(s, sep) ==
    SplitHead(SplitRest(s, sep), sep)

\* len(s.split(sep)), sep a single character
SplitCount(s, sep) ==
    1 + Cardinality({i \in 1..Len(s) : s[i] = sep})

RECURSIVE LStrip(_, _)
\* s.lstrip(chars)
LStrip(s, chars) ==
    IF s # <<>> /\ Head(s) \in chars THEN LStrip(Tail(s), chars) ELSE s

RECURSIVE RStrip(_, _)
\* s.rstrip(chars)
RStrip(s, chars) ==
    IF s # <<>> /\ s[Len(s)] \in chars THEN RStrip(Take(s, Len(s) - 1), chars) ELSE s

\* s.strip(chars)
Strip(s, chars) ==
    RStrip(LStrip(s, chars), chars)

Whitespace ==
    {" "}

UpperOf ==
    [a |-> "A", b |-> "B", c |-> "C", i |-> "I", r |-> "R", p |-> "P"]

\* c.lower(), on the alphabet of the model
LowerChar(c) ==
    IF \E k \in DOMAIN UpperOf : UpperOf[k] = c
    THEN CHOOSE k \in DOMAIN UpperOf : UpperOf[k] = c
    ELSE c

\* s.lower()
Lower(s) ==
    [i \in 1..Len(s) |-> LowerChar(s[i])]

(***************************************************************************)
(* The alphabet and the pieces the message texts are built from            *)
(***************************************************************************)

Letters ==
    {"a", "b", "c", "e", "g", "h", "i", "l", "m", "n", "o", "p", "r", "s", "t",
     "u", "w", "x", "y", "A", "B", "C", "I", "R", "P"}

Digits ==
    {"1", "2", "3"}

\* urllib.parse.scheme_chars
SchemeChars ==
    Letters \cup Digits \cup {"+", "-", "."}

HTTPS ==
    <<"h", "t", "t", "p", "s", ":", "/", "/">>

HTTP ==
    <<"h", "t", "t", "p", ":", "/", "/">>

IG ==
    <<"i", "n", "s", "t", "a", "g", "r", "a", "m", ".", "c", "o", "m">>

WWWIG ==
    <<"w", "w", "w", ".">> \o IG

NOTIG ==
    <<"n", "o", "t">> \o IG

EXAMPLE ==
    <<"e", "x", "a", "m", "p", "l", "e", ".", "c", "o", "m">>

SL ==
    <<"/">>

REEL ==
    <<"r", "e", "e", "l">>

PP ==
    <<"p">>

SLREELSL ==
    SL \o REEL \o SL

SLPSL ==
    SL \o PP \o SL

DOTMP4 ==
    <<".", "m", "p", "4">>

DOTMP3 ==
    <<".", "m", "p", "3">>

QUERY ==
    <<"?", "u", "t", "m", "=", "x">>

IdAB ==
    <<"A", "B">>

IdABC ==
    <<"A", "B", "C">>

IdABC123 ==
    <<"A", "B", "C", "1", "2", "3">>

(***************************************************************************)
(* urllib.parse.urlparse, as far as extract_shortcode reads its result     *)
(***************************************************************************)

\* the scheme urlsplit recognises at the head of url, or <<>>
UrlSchemeLen(url) ==
    LET i == Find(url, <<":">>)
    IN  IF /\ i > 1
           /\ url[1] \in Letters
           /\ \A k \in 1..(i - 1) : url[k] \in SchemeChars
        THEN i
        ELSE 0

\* the first position at or after from where one of '/', '?', '#' stands
NetlocEnd(url, from) ==
    LET hits == {k \in from..Len(url) : url[k] \in {"/", "?", "#"}}
    IN  IF hits = {} THEN Len(url) + 1 ELSE CHOOSE k \in hits : \A j \in hits : k <= j

\* urlparse(url): netloc and path
UrlParse(url) ==
    LET rest  == Drop(url, UrlSchemeLen(url) + 1)
        hasNl == Len(rest) >= 2 /\ Take(rest, 2) = <<"/", "/">>
        nlEnd == NetlocEnd(rest, 3)
        nl    == IF hasNl THEN SubSeq(rest, 3, nlEnd - 1) ELSE <<>>
        after == IF hasNl THEN Drop(rest, nlEnd) ELSE rest
        noFr  == SplitHead(after, <<"#">>)
    IN  [netloc |-> nl, path |-> SplitHead(noFr, <<"?">>)]

(***************************************************************************)
(* extract_shortcode                                                       *)
(***************************************************************************)

Returned(v) ==
    [ok |-> TRUE, val |-> v, err |-> ""]

Raised(e) ==
    [ok |-> FALSE, val |-> <<>>, err |-> e]

\* parsed.netloc.endswith(('instagram.com', 'www.instagram.com'))
HostCheck(netloc) ==
    EndsWith(netloc, IG) \/ EndsWith(netloc, WWWIG)

\* extract_shortcode(url)
extract_shortcode(url) ==
    LET parsed == UrlParse(url)
        path   == Strip(parsed.path, {"/"})
    IN  IF ~HostCheck(parsed.netloc)
        THEN Raised("Invalid Instagram URL")
        ELSE IF Contains(path, SLREELSL)
        THEN Returned(SplitHead(SplitSecond(path, SLREELSL), SL))
        ELSE IF Contains(path, SLPSL)
        THEN Returned(SplitHead(SplitSecond(path, SLPSL), SL))
        ELSE IF SplitCount(path, "/") = 1 /\ path # <<>>
        THEN Returned(path)
        ELSE Raised("Couldn't extract reel shortcode")

\* message.text.split('?')[0].strip()
CleanUrl(text) ==
    Strip(SplitHead(text, <<"?">>), Whitespace)

\* the filter of the handle_reel_url handler
IsReelText(text) ==
    \/ Contains(Lower(text), IG \o SLREELSL)
    \/ Contains(Lower(text), IG \o SLPSL)

(***************************************************************************)
(* State                                                                   *)
(***************************************************************************)

\* conversations (message.chat.id)
NumChats ==
    2

\* handler threads of the transport's polling loop: TeleBot(BOT_TOKEN) is
\* built with its defaults (line 35), a threaded bot with two worker threads
NumWorkers ==
    2

\* how many os.unlink / os.remove calls may fail in one run
MaxUnlinkFailures ==
    1

Chats ==
    1..NumChats

Workers ==
    1..NumWorkers

VARIABLES
    user_sessions,    \* chat id -> session (line 48)
    files,            \* the names of the regular files in DOWNLOAD_DIR (line 31)
    unlink_failures,  \* os.unlink / os.remove calls that have raised so far
    last_link,        \* history: chat id -> the last text a session was stored for
                      \*   since the chat's last completed attempt
    th,               \* worker -> the handler it runs: position, locals, history
    xin,              \* the URL last given to the link extractor, by its parts
    xres              \* what the link extractor made of it

vars ==
    <<user_sessions, files, unlink_failures, last_link, th, xin, xres>>

NoSession ==
    [present |-> FALSE, url |-> <<>>, shortcode |-> <<>>]

\* {'url': clean_url, 'shortcode': shortcode}
Session(url, shortcode) ==
    [present |-> TRUE, url |-> url, shortcode |-> shortcode]

NoLink ==
    <<>>

NoErr ==
    [class |-> "none", origin |-> "none", text |-> ""]

\* an exception: its class as the except clauses tell it, where it came from, str(e)
Exc(class, origin, text) ==
    [class |-> class, origin |-> origin, text |-> text]

\* a message handed to the chat transport; ok is FALSE when the call raised
Msg(kind, text, ok) ==
    [kind |-> kind, text |-> text, ok |-> ok]

\* a worker that runs no handler
Idle ==
    [pc |-> "idle", handler |-> "none", chat |-> 0, fmt |-> "none",
     text |-> <<>>, shortcode |-> <<>>, video_file |-> <<>>, err |-> NoErr,
     out |-> <<>>, trace |-> <<>>, made |-> {}, seen |-> {}, kept |-> {},
     delivered |-> "none", escaped |-> FALSE, prior |-> NoSession,
     read |-> NoSession, popped |-> NoSession]

AllIdle ==
    \A w \in Workers : th[w].pc = "idle"

\* the message texts the conversations send, all passing the handler's filter
TextReel ==
    HTTPS \o IG \o SLREELSL \o IdABC123 \o QUERY

TextNestedReel ==
    HTTPS \o IG \o SLPSL \o <<"x">> \o SLREELSL \o IdABC

TextNestedP ==
    HTTPS \o IG \o SLREELSL \o <<"x">> \o SLPSL \o IdAB \o SL

TextWrongHost ==
    HTTPS \o EXAMPLE \o SL \o IG \o SLREELSL \o IdAB

Texts ==
    {TextReel, TextNestedReel, TextNestedP, TextWrongHost}

Formats ==
    {"MP4", "MP3"}

\* a file the fetch writes whose name does not hold the shortcode
OtherVideo ==
    <<"v">> \o DOTMP4

\* DOWNLOAD_DIR may hold files when the process starts (makedirs(exist_ok=True))
PreExisting ==
    {IdABC \o DOTMP4}

(***************************************************************************)
(* The URLs given to the link extractor alone, built from their parts      *)
(***************************************************************************)

Schemes ==
    {HTTPS, HTTP, <<>>}

Hosts ==
    {IG, WWWIG, NOTIG, EXAMPLE, <<>>}

Shapes ==
    {"reel", "p", "bare", "tv", "deep", "empty"}

Ids ==
    {IdAB, IdABC, IdABC123}

\* the path of a URL of this shape for this identifier
MkPath(shape, id) ==
    IF shape = "reel" THEN SLREELSL \o id
    ELSE IF shape = "p" THEN SLPSL \o id
    ELSE IF shape = "bare" THEN SL \o id
    ELSE IF shape = "tv" THEN <<"/", "t", "x", "/">> \o id
    ELSE IF shape = "deep" THEN <<"/", "x", "/", "y", "/">> \o id
    ELSE <<>>

\* the message text of a URL given by its parts
MkText(u) ==
    u.scheme \o u.host \o MkPath(u.shape, u.id)
             \o (IF u.slash THEN SL ELSE <<>>)
             \o (IF u.query THEN QUERY ELSE <<>>)

XInputs ==
    [given : {TRUE}, scheme : Schemes, host : Hosts, shape : Shapes, id : Ids,
     slash : BOOLEAN, query : BOOLEAN]

NoInput ==
    [given |-> FALSE, scheme |-> <<>>, host |-> <<>>, shape |-> "empty", id |-> IdAB,
     slash |-> FALSE, query |-> FALSE]

Init ==
    /\ user_sessions = [c \in Chats |-> NoSession]
    /\ files \in SUBSET PreExisting
    /\ unlink_failures = 0
    /\ last_link = [c \in Chats |-> NoLink]
    /\ th = [w \in Workers |-> Idle]
    /\ xin = NoInput
    /\ xres = Raised("")

(***************************************************************************)
(* Helpers of the handlers                                                 *)
(***************************************************************************)

\* the worker's record with some fields set
Set(w, r) ==
    [th EXCEPT ![w] = r]

\* the step named step has been entered by the handler
Step(r, step) ==
    [r EXCEPT !.trace = Append(@, step)]

\* an exception leaves the try body: control goes to the except clauses
Fail(r, e) ==
    [r EXCEPT !.pc = "except", !.err = e]

\* the test of line 132 made for "MP3" in place of "MP4"
FormatTypeSwapped(fmt) ==
    IF fmt = "MP3" THEN "video" ELSE "audio"

\* "video" if "MP4" in message.text else "audio"
FormatType(fmt) ==
    IF fmt = "MP4" THEN "video" ELSE "audio"

\* os.path.join(DOWNLOAD_DIR, f"{shortcode}.mp3"), as a name in the directory
AudioName(shortcode) ==
    shortcode \o DOTMP3

\* the generator without its test of the shortcode
VideoMatchesAnyVideo(listing, shortcode) ==
    {f \in listing : EndsWith(f, DOTMP4)}

\* the files the generator of lines 139-142 yields
VideoMatches(listing, shortcode) ==
    {f \in listing : EndsWith(f, DOTMP4) /\ Contains(f, shortcode)}

\* what loader.download_post may leave in DOWNLOAD_DIR for a shortcode
FetchWrites(shortcode) ==
    {{}, {shortcode \o DOTMP4}, {OtherVideo}}

\* chat_id in user_sessions, with the check left out
HasSessionUnchecked(c) ==
    TRUE

\* chat_id in user_sessions (line 126)
HasSession(c) ==
    user_sessions[c].present

\* user_sessions.setdefault(chat_id, {...}) in place of the assignment
StoreSessionIfAbsent(sessions, c, url, shortcode) ==
    IF sessions[c].present THEN sessions
    ELSE [sessions EXCEPT ![c] = Session(url, shortcode)]

\* user_sessions[message.chat.id] = {'url': ..., 'shortcode': ...} (lines 100-103)
StoreSession(sessions, c, url, shortcode) ==
    [sessions EXCEPT ![c] = Session(url, shortcode)]

\* the store made before the shortcode is validated
LinkStoreBeforeValidation(sessions, c, url, r) ==
    StoreSession(sessions, c, url, r.val)

\* lines 97-103: the store is reached only when extract_shortcode returned
LinkStore(sessions, c, url, r) ==
    IF r.ok THEN StoreSession(sessions, c, url, r.val) ELSE sessions

\* the except clauses without the one for CalledProcessError
ReportKindNoConversionClause(e) ==
    IF e.class = "BadResponseException" THEN "content_error" ELSE "generic_error"

\* the except clauses without the one for BadResponseException
ReportKindNoBadResponseClause(e) ==
    IF e.class = "CalledProcessError" THEN "conversion_failed" ELSE "generic_error"

\* the except clause that takes an exception, as the kind of message it sends
ReportKind(e) ==
    IF e.class = "BadResponseException" THEN "content_error"
    ELSE IF e.class = "CalledProcessError" THEN "conversion_failed"
    ELSE "generic_error"

\* the text the message carries: str(e) in the generic clause only
ReportText(e) ==
    IF ReportKind(e) = "generic_error" THEN e.text ELSE ""

(***************************************************************************)
(* handle_reel_url (lines 91-120), one message of chat c with this text    *)
(***************************************************************************)

handle_reel_url(w, c, text) ==
    /\ th[w].pc = "idle"
    /\ IsReelText(text)
    /\ \E sendOk \in BOOLEAN, replyOk \in BOOLEAN :
        LET clean == CleanUrl(text)
            r     == extract_shortcode(clean)
            base  == [Idle EXCEPT !.pc = "done", !.handler = "handle_reel_url",
                                  !.chat = c, !.text = text, !.prior = user_sessions[c]]
            bad   == Msg("invalid_link", "", replyOk)
        IN  /\ user_sessions' = LinkStore(user_sessions, c, clean, r)
            /\ last_link' = IF r.ok THEN [last_link EXCEPT ![c] = text] ELSE last_link
            /\ th' = Set(w,
                   IF ~r.ok
                   THEN [base EXCEPT !.err = Exc("ValueError", "extract", r.err),
                                     !.out = <<bad>>, !.escaped = ~replyOk]
                   ELSE IF sendOk
                   THEN [base EXCEPT !.out = <<Msg("choose_format", "", TRUE)>>]
                   ELSE [base EXCEPT !.err = Exc("Exception", "transport", "send failed"),
                                     !.out = <<Msg("choose_format", "", FALSE), bad>>,
                                     !.escaped = ~replyOk])
    /\ UNCHANGED <<files, unlink_failures, xin, xres>>

(***************************************************************************)
(* process_download (lines 122-200), step by step                          *)
(***************************************************************************)

\* lines 125-127: the session check
BeginDownload(w, c, fmt) ==
    /\ th[w].pc = "idle"
    /\ \E ok \in BOOLEAN :
        LET base == [Idle EXCEPT !.handler = "process_download", !.chat = c, !.fmt = fmt]
        IN  th' = Set(w,
                IF ~HasSession(c)
                THEN [base EXCEPT !.pc = "done", !.out = <<Msg("need_link", "", ok)>>,
                                  !.escaped = ~ok]
                ELSE [base EXCEPT !.pc = "typing"])
    /\ UNCHANGED <<user_sessions, files, unlink_failures, last_link, xin, xres>>

\* lines 130-132: the typing indicator, then the session is read
Typing(w) ==
    /\ th[w].pc = "typing"
    /\ \E ok \in BOOLEAN :
        LET r == Step(th[w], "typing")
            s == user_sessions[r.chat]
        IN  th' = Set(w,
                IF ~ok THEN Fail(r, Exc("Exception", "transport", "send failed"))
                ELSE IF ~s.present THEN Fail(r, Exc("Exception", "session", "KeyError"))
                ELSE [r EXCEPT !.pc = "fetch", !.shortcode = s.shortcode, !.read = s])
    /\ UNCHANGED <<user_sessions, files, unlink_failures, last_link, xin, xres>>

\* lines 135-136: Post.from_shortcode and download_post; either may raise,
\* download_post after any of its writes
Fetch(w) ==
    /\ th[w].pc = "fetch"
    /\ \E o \in {"ok", "bad_response", "client_error"}, wr \in FetchWrites(th[w].shortcode) :
        LET r == [Step(th[w], "fetch") EXCEPT !.made = @ \cup wr]
        IN  /\ files' = files \cup wr
            /\ th' = Set(w,
                   IF o = "ok" THEN [r EXCEPT !.pc = "locate"]
                   ELSE IF o = "bad_response"
                   THEN Fail(r, Exc("BadResponseException", "client", "bad response"))
                   ELSE Fail(r, Exc("Exception", "client", "connection failed")))
    /\ UNCHANGED <<user_sessions, unlink_failures, last_link, xin, xres>>

\* lines 139-146: the lookup of the downloaded file
Locate(w) ==
    /\ th[w].pc = "locate"
    /\ LET r       == [Step(th[w], "locate") EXCEPT !.seen = files]
           matches == VideoMatches(files, r.shortcode)
       IN  IF matches = {}
           THEN th' = Set(w, Fail(r, Exc("Exception", "lookup", "Downloaded file not found")))
           ELSE \E f \in matches :
                    th' = Set(w, [r EXCEPT !.video_file = f,
                                           !.pc = IF FormatType(r.fmt) = "video"
                                                  THEN "send_video" ELSE "transcode"])
    /\ UNCHANGED <<user_sessions, files, unlink_failures, last_link, xin, xres>>

\* lines 149-156: upload_video indicator, open, send_video
SendVideo(w) ==
    /\ th[w].pc = "send_video"
    /\ \E ok \in BOOLEAN :
        LET r == Step(th[w], "send_video")
        IN  th' = Set(w,
                IF r.video_file \notin files
                THEN Fail(r, Exc("Exception", "fs", "No such file"))
                ELSE IF ~ok THEN Fail(r, Exc("Exception", "transport", "send failed"))
                ELSE [r EXCEPT !.pc = "rm_video", !.delivered = "video"])
    /\ UNCHANGED <<user_sessions, files, unlink_failures, last_link, xin, xres>>

\* lines 159-165: ffmpeg, check=True
Transcode(w) ==
    /\ th[w].pc = "transcode"
    /\ \E o \in {"ok", "nonzero", "nonzero_partial", "oserror"} :
        LET r     == Step(th[w], "transcode")
            audio == {AudioName(r.shortcode)}
            exit0 == o = "ok" /\ r.video_file \in files
            wr    == IF exit0 \/ o = "nonzero_partial" THEN audio ELSE {}
        IN  /\ files' = files \cup wr
            /\ th' = Set(w,
                   IF exit0 THEN [r EXCEPT !.pc = "send_audio", !.made = @ \cup wr]
                   ELSE IF o = "oserror"
                   THEN Fail(r, Exc("Exception", "ffmpeg", "No such file"))
                   ELSE Fail([r EXCEPT !.made = @ \cup wr],
                             Exc("CalledProcessError", "ffmpeg", "non-zero exit status")))
    /\ UNCHANGED <<user_sessions, unlink_failures, last_link, xin, xres>>

\* lines 167-173: upload_audio indicator, open, send_audio
SendAudio(w) ==
    /\ th[w].pc = "send_audio"
    /\ \E ok \in BOOLEAN :
        LET r == Step(th[w], "send_audio")
        IN  th' = Set(w,
                IF AudioName(r.shortcode) \notin files
                THEN Fail(r, Exc("Exception", "fs", "No such file"))
                ELSE IF ~ok THEN Fail(r, Exc("Exception", "transport", "send failed"))
                ELSE [r EXCEPT !.pc = "rm_audio", !.delivered = "audio"])
    /\ UNCHANGED <<user_sessions, files, unlink_failures, last_link, xin, xres>>

\* os.remove(name) by worker w: it raises when the file is gone, and may raise
\* otherwise; on success control goes to next
Remove(w, step, name, next) ==
    \E ok \in BOOLEAN :
        LET r      == Step(th[w], step)
            failed == name \notin files \/ ~ok
        IN  /\ ok \/ unlink_failures < MaxUnlinkFailures
            /\ files' = IF failed THEN files ELSE files \ {name}
            /\ unlink_failures' =
                   IF name \in files /\ ~ok THEN unlink_failures + 1 ELSE unlink_failures
            /\ th' = Set(w,
                   IF failed THEN Fail(r, Exc("Exception", "fs", "remove failed"))
                   ELSE [r EXCEPT !.pc = next])

\* line 174: os.remove(audio_path)
RemoveAudio(w) ==
    /\ th[w].pc = "rm_audio"
    /\ Remove(w, "rm_audio", AudioName(th[w].shortcode), "rm_video")
    /\ UNCHANGED <<user_sessions, last_link, xin, xres>>

\* line 177: os.remove(file_path)
RemoveVideo(w) ==
    /\ th[w].pc = "rm_video"
    /\ Remove(w, "rm_video", th[w].video_file, "complete")
    /\ UNCHANGED <<user_sessions, last_link, xin, xres>>

\* lines 180-186 without line 178: the completion message is sent and the
\* session stays
CompleteKeepsSession(w) ==
    /\ th[w].pc = "complete"
    /\ \E ok \in BOOLEAN :
        LET r == [Step(th[w], "complete")
                     EXCEPT !.out = Append(@, Msg("complete", "", ok))]
        IN  th' = Set(w,
                   IF ok THEN [r EXCEPT !.pc = "finally"]
                   ELSE Fail(r, Exc("Exception", "transport", "send failed")))
    /\ UNCHANGED <<user_sessions, last_link, files, unlink_failures, xin, xres>>

\* line 178 removing the entry only when it is the one read at line 131
CompletePopsOwnEntry(w) ==
    /\ th[w].pc = "complete"
    /\ \E ok \in BOOLEAN :
        LET r    == [Step(Step(th[w], "pop"), "complete")
                        EXCEPT !.out = Append(@, Msg("complete", "", ok)),
                               !.popped = user_sessions[th[w].chat]]
            mine == user_sessions[r.chat] = r.read
        IN  /\ user_sessions' = IF mine THEN [user_sessions EXCEPT ![r.chat] = NoSession]
                                ELSE user_sessions
            /\ last_link' = IF mine THEN [last_link EXCEPT ![r.chat] = NoLink] ELSE last_link
            /\ th' = Set(w,
                   IF ok THEN [r EXCEPT !.pc = "finally"]
                   ELSE Fail(r, Exc("Exception", "transport", "send failed")))
    /\ UNCHANGED <<files, unlink_failures, xin, xres>>

\* lines 178-186: the session is popped, then the completion message is sent
Complete(w) ==
    /\ th[w].pc = "complete"
    /\ \E ok \in BOOLEAN :
        LET r == [Step(Step(th[w], "pop"), "complete")
                     EXCEPT !.out = Append(@, Msg("complete", "", ok)),
                            !.popped = user_sessions[th[w].chat]]
        IN  /\ user_sessions' = [user_sessions EXCEPT ![r.chat] = NoSession]
            /\ last_link' = [last_link EXCEPT ![r.chat] = NoLink]
            /\ th' = Set(w,
                   IF ok THEN [r EXCEPT !.pc = "finally"]
                   ELSE Fail(r, Exc("Exception", "transport", "send failed")))
    /\ UNCHANGED <<files, unlink_failures, xin, xres>>

\* lines 188-198: the except clauses; an exception of reply_to leaves the handler
Report(w) ==
    /\ th[w].pc = "except"
    /\ \E ok \in BOOLEAN :
        LET r == Step(th[w], "report")
        IN  th' = Set(w, [r EXCEPT !.pc = "finally",
                                   !.out = Append(@, Msg(ReportKind(r.err), ReportText(r.err), ok)),
                                   !.escaped = ~ok])
    /\ UNCHANGED <<user_sessions, files, unlink_failures, last_link, xin, xres>>

\* cleanup_directory called at the end of the try body, not in a finally clause
CleanupOnSuccessOnly(w) ==
    /\ th[w].pc = "finally"
    /\ files' = IF th[w].err.class = "none" THEN {} ELSE files
    /\ th' = Set(w, [(IF th[w].err.class = "none" THEN Step(th[w], "cleanup") ELSE th[w])
                        EXCEPT !.pc = "done"])
    /\ UNCHANGED <<user_sessions, unlink_failures, last_link, xin, xres>>

\* lines 199-200 and 65-73: finally, cleanup_directory; kept are the files
\* whose os.unlink raised
Cleanup(w) ==
    /\ th[w].pc = "finally"
    /\ \E kept \in SUBSET files :
        /\ unlink_failures + Cardinality(kept) <= MaxUnlinkFailures
        /\ files' = kept
        /\ unlink_failures' = unlink_failures + Cardinality(kept)
        /\ th' = Set(w, [Step(th[w], "cleanup") EXCEPT !.pc = "done", !.kept = kept])
    /\ UNCHANGED <<user_sessions, last_link, xin, xres>>

(***************************************************************************)
(* restart_flow (lines 202-209)                                            *)
(***************************************************************************)

\* restart_flow with a call of cleanup_directory before the prompt
RestartFlowCleans(w, c) ==
    /\ th[w].pc = "idle"
    /\ \E ok \in BOOLEAN :
        th' = Set(w, [Idle EXCEPT !.pc = "done", !.handler = "restart_flow", !.chat = c,
                                  !.out = <<Msg("reprompt", "", ok)>>, !.escaped = ~ok])
    /\ files' = {}
    /\ UNCHANGED <<user_sessions, unlink_failures, last_link, xin, xres>>

restart_flow(w, c) ==
    /\ th[w].pc = "idle"
    /\ \E ok \in BOOLEAN :
        th' = Set(w, [Idle EXCEPT !.pc = "done", !.handler = "restart_flow", !.chat = c,
                                  !.out = <<Msg("reprompt", "", ok)>>, !.escaped = ~ok])
    /\ UNCHANGED <<user_sessions, files, unlink_failures, last_link, xin, xres>>

\* the handler has returned (or its exception has left it): the worker is free
Return(w) ==
    /\ th[w].pc = "done"
    /\ th' = Set(w, Idle)
    /\ UNCHANGED <<user_sessions, files, unlink_failures, last_link, xin, xres>>

\* one step of a handler that is under way
Advance(w) ==
    \/ Typing(w)
    \/ Fetch(w)
    \/ Locate(w)
    \/ SendVideo(w)
    \/ Transcode(w)
    \/ SendAudio(w)
    \/ RemoveAudio(w)
    \/ RemoveVideo(w)
    \/ Complete(w)
    \/ Report(w)
    \/ Cleanup(w)
    \/ Return(w)

\* the polling loop hands a worker a message with a link
LinkMessage(w) ==
    \E c \in Chats, text \in Texts : handle_reel_url(w, c, text)

\* the polling loop hands a worker a format reply
FormatMessage(w) ==
    \E c \in Chats, fmt \in Formats : BeginDownload(w, c, fmt)

\* the polling loop hands a worker a 'Download Another' reply
RestartMessage(w) ==
    \E c \in Chats : restart_flow(w, c)

\* the worker the polling loop hands a message to when every worker is free
FirstWorker ==
    CHOOSE w \in Workers : \A v \in Workers : w <= v

\* handlers run to completion, one message at a time (single-flight): a message
\* is taken only when no handler is under way
Next ==
    \E w \in Workers :
        \/ AllIdle /\ w = FirstWorker /\ LinkMessage(w)
        \/ AllIdle /\ w = FirstWorker /\ FormatMessage(w)
        \/ AllIdle /\ w = FirstWorker /\ RestartMessage(w)
        \/ Advance(w)

Spec ==
    Init /\ [][Next]_vars

(***************************************************************************)
(* Two attempts on the worker threads at the same time: every chat has     *)
(* sent a link, and each worker thread is followed through one attempt     *)
(***************************************************************************)

\* a worker is free and every worker before it is busy
IsFreeWorker(w) ==
    /\ th[w].pc = "idle"
    /\ \A v \in Workers : v < w => th[v].pc # "idle"

\* the link a chat has sent before the handlers are followed
FirstLink(c) ==
    IF c = 1 THEN TextNestedP ELSE TextNestedReel

\* user_sessions[c] after handle_reel_url has stored the link
SessionLeftBy(text) ==
    Session(CleanUrl(text), extract_shortcode(CleanUrl(text)).val)

InitConc ==
    /\ user_sessions = [c \in Chats |-> SessionLeftBy(FirstLink(c))]
    /\ last_link = [c \in Chats |-> FirstLink(c)]
    /\ files = {}
    /\ unlink_failures = 0
    /\ th = [w \in Workers |-> Idle]
    /\ xin = NoInput
    /\ xres = Raised("")

\* a handler under way takes a step; the worker of an attempt is not freed
RunHandler(w) ==
    /\ th[w].pc = "done" => th[w].trace = <<>>
    /\ Advance(w)

\* a reply is handed to a free worker while another handler is under way
NextConc ==
    \E w \in Workers :
        \/ IsFreeWorker(w) /\ FormatMessage(w)
        \/ IsFreeWorker(w) /\ RestartMessage(w)
        \/ RunHandler(w)

SpecConc ==
    InitConc /\ [][NextConc]_vars

(***************************************************************************)
(* Links handled while an attempt is under way: one attempt is followed,   *)
(* and a link or a restart reply is handed to a free worker at any time    *)
(***************************************************************************)

\* a worker holds an attempt, under way or ended
AttemptSeen ==
    \E v \in Workers :
        /\ th[v].handler = "process_download"
        /\ th[v].pc = "done" => th[v].trace # <<>>

\* a format reply: the first one that finds a session starts the attempt, the
\* later ones are followed when they find no session
FormatReply(w) ==
    \E c \in Chats, fmt \in Formats :
        /\ ~AttemptSeen \/ ~HasSession(c)
        /\ BeginDownload(w, c, fmt)

\* the link a chat sends after its first one
NextLink(c) ==
    IF c = 1 THEN TextNestedReel ELSE TextNestedP

\* the polling loop hands a worker the next link of a chat
Relink(w) ==
    \E c \in Chats : handle_reel_url(w, c, NextLink(c))

NextRelink ==
    \E w \in Workers :
        \/ IsFreeWorker(w) /\ Relink(w)
        \/ IsFreeWorker(w) /\ FormatReply(w)
        \/ IsFreeWorker(w) /\ RestartMessage(w)
        \/ RunHandler(w)

SpecRelink ==
    InitConc /\ [][NextRelink]_vars

(***************************************************************************)
(* The link handler on its own: links only, one message at a time, with    *)
(* the texts of bare keywords and of a doubled slash among them            *)
(***************************************************************************)

TextBareReel ==
    HTTPS \o IG \o SLREELSL

TextBareP ==
    HTTPS \o IG \o SLPSL

TextDoubledSlash ==
    HTTPS \o IG \o SLREELSL \o <<"x">> \o SLREELSL \o SL \o IdAB

StoreTexts ==
    Texts \cup {TextBareReel, TextBareP, TextDoubledSlash}

StoreLink(w) ==
    \E c \in Chats, text \in StoreTexts : handle_reel_url(w, c, text)

NextStore ==
    \E w \in Workers :
        \/ AllIdle /\ w = FirstWorker /\ StoreLink(w)
        \/ Return(w)

SpecStore ==
    Init /\ [][NextStore]_vars

(***************************************************************************)
(* The link extractor on its own: lines 97-98 applied to a URL             *)
(***************************************************************************)

Extract(u) ==
    /\ ~xin.given
    /\ xin' = u
    /\ xres' = extract_shortcode(CleanUrl(MkText(u)))
    /\ UNCHANGED <<user_sessions, files, unlink_failures, last_link, th>>

NextExtract ==
    \E u \in XInputs : Extract(u)

SpecExtract ==
    Init /\ [][NextExtract]_vars

(***************************************************************************)
(* Properties                                                              *)
(***************************************************************************)

Range(s) ==
    {s[i] : i \in 1..Len(s)}

Last(s) ==
    s[Len(s)]

\* process_download has returned after an attempt, i.e. past its session check
FinishedAttempt(w) ==
    /\ th[w].pc = "done"
    /\ th[w].handler = "process_download"
    /\ th[w].trace # <<>>

FailureKinds ==
    {"content_error", "conversion_failed", "generic_error"}

\* the failure messages the handler of worker w has handed to the transport
FailureMsgs(w) ==
    {i \in 1..Len(th[w].out) : th[w].out[i].kind \in FailureKinds}

\* worker w has handed the transport exactly one failure message, of this kind
OneFailureMsg(w, kind) ==
    /\ Cardinality(FailureMsgs(w)) = 1
    /\ \A i \in FailureMsgs(w) : th[w].out[i].kind = kind

DeliverySteps ==
    {"transcode", "send_video", "send_audio"}

\* C1: when process_download returns from an attempt (a session was present at
\* its start), whatever the outcome, user_sessions has no entry for the chat.
C1_SessionAbsentAfterAttempt ==
    \A w \in Workers :
        FinishedAttempt(w) => ~user_sessions[th[w].chat].present

\* C2, as claimed: when process_download returns from an attempt, on every exit
\* path, cleanup_directory has run and DOWNLOAD_DIR holds no file the attempt's
\* fetch or transcode created.
C2_NoAttemptFileLeft ==
    \A w \in Workers :
        FinishedAttempt(w) =>
            /\ "cleanup" \in Range(th[w].trace)
            /\ th[w].made \cap files = {}

\* C2, amended: when process_download returns from an attempt, on every exit
\* path, cleanup_directory was its last step, and the only files of the attempt
\* still in DOWNLOAD_DIR are those whose os.unlink raised in cleanup_directory.
C2_CleanupOnEveryExit ==
    \A w \in Workers :
        FinishedAttempt(w) =>
            /\ Last(th[w].trace) = "cleanup"
            /\ (th[w].made \cap files) \subseteq th[w].kept

\* C2 witness: an attempt whose failure report itself raised has returned, the
\* files it created are gone.
C2_Witness ==
    \E w \in Workers :
        /\ FinishedAttempt(w)
        /\ th[w].escaped
        /\ th[w].made # {}
        /\ th[w].made \cap files = {}

\* the host a URL names; a text without a scheme names none
NamedHost(u) ==
    IF u.scheme = <<>> THEN <<>> ELSE u.host

SupportedShapes ==
    {"reel", "p", "bare"}

\* C3: for a URL on instagram.com or www.instagram.com whose path is /reel/<id>,
\* /p/<id> or /<id>, with or without a trailing slash or a query string, the
\* stripping of handle_reel_url followed by extract_shortcode returns <id>; for
\* a path of no supported shape it raises.
C3_ExtractionCorrect ==
    (xin.given /\ NamedHost(xin) \in {IG, WWWIG}) =>
        IF xin.shape \in SupportedShapes
        THEN xres = Returned(xin.id)
        ELSE ~xres.ok

\* C4: extract_shortcode raises for every URL whose host is neither instagram.com
\* nor www.instagram.com, hosts that only end with that string and the empty
\* host included.
C4_ForeignHostRejected ==
    (xin.given /\ NamedHost(xin) \notin {IG, WWWIG}) => ~xres.ok

\* C5: a format reply of a chat without a session ends process_download at once:
\* the only message is the precondition error, no step of an attempt is taken,
\* and user_sessions and DOWNLOAD_DIR are left as they were.
C5_NoSessionNoAttempt ==
    [][\A w \in Workers, c \in Chats :
        ( /\ th[w].pc = "idle"
          /\ th'[w].pc # "idle"
          /\ th'[w].handler = "process_download"
          /\ th'[w].chat = c
          /\ ~user_sessions[c].present )
        => /\ th'[w].pc = "done"
           /\ th'[w].trace = <<>>
           /\ Len(th'[w].out) = 1
           /\ th'[w].out[1].kind = "need_link"
           /\ th'[w].delivered = "none"
           /\ th'[w].made = {}
           /\ user_sessions' = user_sessions
           /\ files' = files]_vars

\* C5 witness: the precondition error was given to a chat without a session
\* while another chat holds a session and DOWNLOAD_DIR holds a file.
C5_Witness ==
    \E w \in Workers, d \in Chats :
        /\ th[w].pc = "done"
        /\ th[w].handler = "process_download"
        /\ th[w].trace = <<>>
        /\ th[w].out[1].kind = "need_link"
        /\ d # th[w].chat
        /\ user_sessions[d].present
        /\ files # {}

\* the lookup of worker w found no file that ends with '.mp4' and contains the
\* shortcode, after a fetch that returned
LookupEmpty(w) ==
    /\ "locate" \in Range(th[w].trace)
    /\ ~\E f \in th[w].seen : EndsWith(f, DOTMP4) /\ Contains(f, th[w].shortcode)

\* C6: when the fetch returned but DOWNLOAD_DIR held no '.mp4' file with the
\* shortcode in its name, the attempt goes to the except clauses, reports one
\* failure (the generic download error) and neither transcodes nor delivers.
C6_MissingFileIsFailure ==
    \A w \in Workers :
        LookupEmpty(w) =>
            /\ th[w].pc \in {"except", "finally", "done"}
            /\ th[w].err.origin = "lookup"
            /\ th[w].delivered = "none"
            /\ Range(th[w].trace) \cap DeliverySteps = {}
            /\ th[w].pc \in {"finally", "done"} => OneFailureMsg(w, "generic_error")

\* C6 witness: the fetch wrote a file, none matched, the attempt has returned.
C6_Witness ==
    \E w \in Workers :
        /\ LookupEmpty(w)
        /\ th[w].pc = "done"
        /\ th[w].made # {}

\* C7: when ffmpeg exits non-zero the attempt reports the conversion failure
\* (and no other failure message), delivers nothing, and has run
\* cleanup_directory when it returns.
C7_ConversionFailure ==
    \A w \in Workers :
        th[w].err.class = "CalledProcessError" =>
            /\ FormatType(th[w].fmt) = "audio"
            /\ th[w].delivered = "none"
            /\ Range(th[w].trace) \cap {"send_video", "send_audio"} = {}
            /\ th[w].pc \in {"finally", "done"} => OneFailureMsg(w, "conversion_failed")
            /\ th[w].pc = "done" => Last(th[w].trace) = "cleanup"

\* C7 witness: a failed conversion left a partial audio file, the attempt has
\* returned and the file is gone.
C7_Witness ==
    \E w \in Workers :
        /\ th[w].pc = "done"
        /\ th[w].err.class = "CalledProcessError"
        /\ AudioName(th[w].shortcode) \in th[w].made
        /\ files = {}

\* C8: when extract_shortcode raises in handle_reel_url, the handler sends the
\* invalid-link message and user_sessions and DOWNLOAD_DIR stay as they were.
C8_InvalidLinkChangesNothing ==
    [][\A w \in Workers :
        ( /\ th[w].pc = "idle"
          /\ th'[w].handler = "handle_reel_url"
          /\ th'[w].err.origin = "extract" )
        => /\ th'[w].pc = "done"
           /\ Len(th'[w].out) = 1
           /\ th'[w].out[1].kind = "invalid_link"
           /\ user_sessions' = user_sessions
           /\ files' = files
           /\ unlink_failures' = unlink_failures]_vars

\* C8 witness: a link was refused while the chat and another chat hold sessions.
C8_Witness ==
    \E w \in Workers, d \in Chats :
        /\ th[w].pc = "done"
        /\ th[w].handler = "handle_reel_url"
        /\ th[w].err.origin = "extract"
        /\ user_sessions[th[w].chat].present
        /\ d # th[w].chat
        /\ user_sessions[d].present
        /\ user_sessions[d].shortcode # user_sessions[th[w].chat].shortcode

\* the attempt of worker w has returned after an exception left its try body
FailedAttempt(w) ==
    FinishedAttempt(w) /\ th[w].err.class # "none"

\* C9, as claimed: a failed attempt gives exactly one failure message, its kind
\* set by the error class, and an error of the retrieval client never gives the
\* generic message.
C9_ClientErrorNeverGeneric ==
    \A w \in Workers :
        FailedAttempt(w) =>
            /\ Cardinality(FailureMsgs(w)) = 1
            /\ \A i \in FailureMsgs(w) :
                /\ th[w].err.class = "BadResponseException"
                       => th[w].out[i].kind = "content_error"
                /\ th[w].err.class = "CalledProcessError"
                       => th[w].out[i].kind = "conversion_failed"
                /\ th[w].err.origin = "client" => th[w].out[i].kind # "generic_error"
                /\ (th[w].err.class = "Exception" /\ th[w].err.origin # "client")
                       => th[w].out[i].kind = "generic_error"

\* C9, amended: a failed attempt hands the transport exactly one failure
\* message, its kind set by the exception class: BadResponseException gives the
\* content message, CalledProcessError the conversion message, every other
\* exception (a missing file, the client's other errors) the generic message
\* with str(e); a BadResponseException never gives the generic message.
C9_MessageByErrorClass ==
    \A w \in Workers :
        FailedAttempt(w) =>
            /\ Cardinality(FailureMsgs(w)) = 1
            /\ \A i \in FailureMsgs(w) :
                /\ th[w].err.class = "BadResponseException"
                       => th[w].out[i].kind = "content_error"
                /\ th[w].err.class = "CalledProcessError"
                       => th[w].out[i].kind = "conversion_failed"
                /\ th[w].err.class \notin {"BadResponseException", "CalledProcessError"}
                       => /\ th[w].out[i].kind = "generic_error"
                          /\ th[w].out[i].text = th[w].err.text

\* C9 witness: an attempt failed with a BadResponseException and has returned.
C9_Witness ==
    \E w \in Workers :
        /\ FailedAttempt(w)
        /\ th[w].err.class = "BadResponseException"
        /\ OneFailureMsg(w, "content_error")

\* the session a link text gives when extract_shortcode accepts it
SessionOf(text) ==
    Session(CleanUrl(text), extract_shortcode(CleanUrl(text)).val)

\* C10: a link that parses replaces the chat's session whatever it was, and an
\* attempt fetches the identifier of the chat's last parsed link, whatever the
\* other chats have sent.
C10_LastLinkWins ==
    \A w \in Workers :
        /\ ( /\ th[w].pc = "done"
             /\ th[w].handler = "handle_reel_url"
             /\ th[w].err.origin # "extract" )
           => /\ user_sessions[th[w].chat] = SessionOf(th[w].text)
              /\ \A d \in Chats \ {th[w].chat} :
                    user_sessions[d].present => user_sessions[d] = SessionOf(last_link[d])
        /\ ( /\ th[w].handler = "process_download"
             /\ "fetch" \in Range(th[w].trace)
             /\ "pop" \notin Range(th[w].trace) )
           => /\ last_link[th[w].chat] # NoLink
              /\ th[w].shortcode = SessionOf(last_link[th[w].chat]).shortcode

\* C10 witness: an attempt has fetched the identifier of its chat's link while
\* another chat holds a session for another identifier.
C10_Witness ==
    \E w \in Workers, d \in Chats :
        /\ th[w].handler = "process_download"
        /\ "fetch" \in Range(th[w].trace)
        /\ th[w].shortcode = IdAB
        /\ d # th[w].chat
        /\ user_sessions[d].present
        /\ user_sessions[d].shortcode = IdABC

\* a link has replaced the session of another identifier
C10_Overwrite ==
    \E w \in Workers :
        /\ th[w].pc = "done"
        /\ th[w].handler = "handle_reel_url"
        /\ th[w].prior.present
        /\ user_sessions[th[w].chat].present
        /\ th[w].prior.shortcode # user_sessions[th[w].chat].shortcode

\* the steps of the try body of an attempt, in the order of lines 130-186
BodyOrder(fmt) ==
    IF fmt = "MP4"
    THEN <<"typing", "fetch", "locate", "send_video", "rm_video", "pop", "complete">>
    ELSE <<"typing", "fetch", "locate", "transcode", "send_audio", "rm_audio",
           "rm_video", "pop", "complete">>

IsPrefix(p, s) ==
    Len(p) <= Len(s) /\ SubSeq(s, 1, Len(p)) = p

IsBodyStep(x) ==
    x \notin {"report", "cleanup"}

\* the steps of the try body worker w has entered
BodyOf(w) ==
    SelectSeq(th[w].trace, IsBodyStep)

\* what worker w has entered after the try body
AfterBody(w) ==
    SubSeq(th[w].trace, Len(BodyOf(w)) + 1, Len(th[w].trace))

\* C11: the steps of an attempt are entered in the order fetch, lookup,
\* [transcode], delivery, removal of the delivered files, session removal,
\* completion message, each only after the earlier ones succeeded, and
\* cleanup_directory comes last; ffmpeg is entered only for the reply MP3 and
\* every audio delivery follows it; after the audio is delivered the next step
\* removes the audio file, which is gone before cleanup_directory runs.
C11_StepOrder ==
    \A w \in Workers :
        th[w].handler = "process_download" =>
            /\ IsPrefix(BodyOf(w), BodyOrder(th[w].fmt))
            /\ AfterBody(w) \in {<<>>, <<"report">>, <<"cleanup">>, <<"report", "cleanup">>}
            /\ "report" \in Range(th[w].trace) <=>
                   (th[w].err.class # "none" /\ th[w].pc \in {"finally", "done"})
            /\ th[w].err.class # "none" => th[w].pc \in {"except", "finally", "done"}
            /\ (th[w].pc = "done" /\ th[w].trace # <<>>) => Last(th[w].trace) = "cleanup"
            /\ (th[w].pc = "done" /\ th[w].trace # <<>> /\ th[w].err.class = "none")
                   => BodyOf(w) = BodyOrder(th[w].fmt)
            /\ "transcode" \in Range(th[w].trace) => th[w].fmt = "MP3"
            /\ (th[w].fmt = "MP3" /\ th[w].pc \in {"send_audio", "rm_audio"})
                   => "transcode" \in Range(th[w].trace)
            /\ (th[w].delivered = "audio" /\ th[w].pc \in {"rm_video", "complete"})
                   => /\ AudioName(th[w].shortcode) \notin files
                      /\ "cleanup" \notin Range(th[w].trace)

\* C11 witness: an audio attempt has gone through every step and returned.
C11_Witness ==
    \E w \in Workers :
        /\ th[w].pc = "done"
        /\ th[w].handler = "process_download"
        /\ th[w].delivered = "audio"
        /\ th[w].trace = BodyOrder("MP3") \o <<"cleanup">>

\* the completion messages worker w has handed to the transport
CompletionMsgs(w) ==
    SelectSeq(th[w].out, LAMBDA m : m.kind = "complete")

\* C12: a step that sends the completion message is taken by an attempt that
\* has delivered its attachment, and leaves no session for the chat; a step
\* that handles the reply "Download Another" sends the prompt for a link and
\* nothing else, and leaves user_sessions and DOWNLOAD_DIR as they were.
C12_CompletionAndRestart ==
    [][\A w \in Workers :
        /\ Len(CompletionMsgs(w)') > Len(CompletionMsgs(w))
               => /\ th'[w].delivered \in {"video", "audio"}
                  /\ \E i \in 1..Len(th[w].trace) :
                         th[w].trace[i] \in {"send_video", "send_audio"}
                  /\ ~user_sessions'[th'[w].chat].present
                  /\ Len(CompletionMsgs(w)') = 1
        /\ (th[w].pc = "idle" /\ th'[w].handler = "restart_flow")
               => /\ th'[w].pc = "done"
                  /\ Len(th'[w].out) = 1
                  /\ th'[w].out[1].kind = "reprompt"
                  /\ th'[w].trace = <<>>
                  /\ user_sessions' = user_sessions
                  /\ files' = files]_vars

\* C12 witness: the completion message has been sent after a delivery, the
\* session of the chat is gone and another chat still holds one.
C12_Witness ==
    \E w \in Workers, d \in Chats :
        /\ th[w].pc = "finally"
        /\ th[w].err.class = "none"
        /\ Len(CompletionMsgs(w)) = 1
        /\ CompletionMsgs(w)[1].ok
        /\ th[w].delivered = "video"
        /\ ~user_sessions[th[w].chat].present
        /\ d # th[w].chat
        /\ user_sessions[d].present

\* worker v runs an attempt that has fetched and not yet delivered
FetchedUndelivered(v) ==
    /\ th[v].handler = "process_download"
    /\ th[v].pc \in {"locate", "send_video", "transcode", "send_audio"}

\* worker w runs cleanup_directory in this step
CleanupStep(w) ==
    /\ th[w].handler = "process_download"
    /\ th[w].pc = "finally"
    /\ th'[w].pc = "done"

\* worker w runs os.remove in this step
RemoveStep(w) ==
    /\ th[w].handler = "process_download"
    /\ th[w].pc \in {"rm_audio", "rm_video"}
    /\ th'[w].pc # th[w].pc

\* C13: a file that an attempt has written (its fetched video, its derived
\* audio) and not yet delivered leaves DOWNLOAD_DIR only in a step of another
\* attempt that is under way at the same time, its cleanup_directory or its
\* os.remove of a file of the same name; with one attempt in flight at a time
\* there is no such step.
C13_DeletedOnlyByOverlap ==
    [][\A v \in Workers :
        (FetchedUndelivered(v) /\ ~((th[v].made \cap files) \subseteq files'))
        => /\ th'[v] = th[v]
           /\ \E w \in Workers \ {v} : CleanupStep(w) \/ RemoveStep(w)]_vars

\* C13 witness: an attempt whose fetch returned and wrote the file of its
\* shortcode ended with "Downloaded file not found", the lookup having seen
\* an empty directory, while the other attempt, which delivered nothing and
\* removed nothing itself, has run cleanup_directory.
C13_Witness ==
    \E v \in Workers, w \in Workers :
        /\ v # w
        /\ th[v].handler = "process_download"
        /\ (th[v].shortcode \o DOTMP4) \in th[v].made
        /\ th[v].err.origin = "lookup"
        /\ th[v].seen = {}
        /\ th[w].handler = "process_download"
        /\ th[w].delivered = "none"
        /\ "cleanup" \in Range(th[w].trace)
        /\ th[w].shortcode # th[v].shortcode

\* worker w runs an attempt that has read its session and not yet popped it
ReadNotPopped(w) ==
    /\ th[w].handler = "process_download"
    /\ th[w].pc \in {"fetch", "locate", "send_video", "transcode", "send_audio",
                     "rm_audio", "rm_video", "complete"}

\* worker w runs line 178 in this step
PopStep(w) ==
    /\ th[w].handler = "process_download"
    /\ th[w].pc = "complete"
    /\ th'[w].pc # "complete"

\* worker v handles a link of chat c in this step
LinkStep(v, c) ==
    /\ th[v].pc = "idle"
    /\ th'[v].handler = "handle_reel_url"
    /\ th'[v].chat = c

\* C14: between the read of the session and its removal the entry of the
\* attempt's chat changes only in a step that handles a link of the same chat
\* on another worker, so with the messages of a chat handled one at a time the
\* entry removed is the entry read; the removal takes whatever entry is there
\* and leaves the chat without a session.
C14_PopRemovesCurrentEntry ==
    [][\A w \in Workers :
        /\ (ReadNotPopped(w) /\ user_sessions'[th[w].chat] # user_sessions[th[w].chat])
               => \/ PopStep(w)
                  \/ \E v \in Workers \ {w} : LinkStep(v, th[w].chat)
        /\ PopStep(w)
               => /\ th'[w].popped = user_sessions[th[w].chat]
                  /\ ~user_sessions'[th[w].chat].present
                  /\ th'[w].read = th[w].read]_vars

\* C14 witness: an attempt has removed an entry that is not the one it read,
\* stored by a link handled while it ran, and the chat's next format reply
\* got the precondition error.
C14_Witness ==
    \E w \in Workers, v \in Workers :
        /\ v # w
        /\ th[w].handler = "process_download"
        /\ "pop" \in Range(th[w].trace)
        /\ th[w].popped.present
        /\ th[w].read.present
        /\ th[w].popped # th[w].read
        /\ th[v].handler = "process_download"
        /\ th[v].chat = th[w].chat
        /\ th[v].pc = "done"
        /\ Len(th[v].out) = 1
        /\ th[v].out[1].kind = "need_link"
        /\ ~user_sessions[th[w].chat].present

\* with one message handled at a time the entry removed is the entry read
PopRemovesEntryRead ==
    \A w \in Workers :
        (th[w].handler = "process_download" /\ "pop" \in Range(th[w].trace))
            => (th[w].popped.present /\ th[w].popped = th[w].read)

\* C15: at the lookup every file in DOWNLOAD_DIR that matches the attempt's
\* shortcode was written by the attempt's own fetch, and the file the attempt
\* goes on to deliver or convert is one of them.
C15_LookupFindsOwnFile ==
    \A w \in Workers :
        (th[w].handler = "process_download" /\ "locate" \in Range(th[w].trace))
            => /\ VideoMatches(th[w].seen, th[w].shortcode) \subseteq th[w].made
               /\ th[w].video_file # <<>> => th[w].video_file \in th[w].made

\* C16: an attempt that has handed the transport a failure message has
\* delivered no attachment, and a returned attempt that has delivered one has
\* sent the completion message and left its chat without a session.
C16_NoFailureAfterDelivery ==
    \A w \in Workers :
        th[w].handler = "process_download" =>
            /\ FailureMsgs(w) # {} => th[w].delivered = "none"
            /\ (FinishedAttempt(w) /\ th[w].delivered # "none")
                   => /\ \E i \in 1..Len(th[w].out) :
                             th[w].out[i].kind = "complete" /\ th[w].out[i].ok
                      /\ ~user_sessions[th[w].chat].present

\* the pieces of s between the slashes, as str.split('/') gives them
RECURSIVE Segments(_)
Segments(s) ==
    IF Contains(s, SL) THEN <<SplitHead(s, SL)>> \o Segments(SplitRest(s, SL))
    ELSE <<s>>

\* id is the path segment of url that directly follows a segment 'reel' or 'p'
FollowsKeyword(url, id) ==
    LET segs == Segments(UrlParse(url).path)
    IN  \E i \in 1..(Len(segs) - 1) :
            /\ segs[i] \in {<<"r", "e", "e", "l">>, <<"p">>}
            /\ segs[i + 1] = id

\* C17: every entry of user_sessions holds a shortcode that is not empty, is
\* not the keyword 'reel' or 'p', and is the path segment of the stored URL
\* that directly follows the keyword.
C17_StoredShortcodeIsSegment ==
    \A c \in Chats :
        user_sessions[c].present =>
            /\ user_sessions[c].shortcode # <<>>
            /\ user_sessions[c].shortcode \notin {<<"r", "e", "e", "l">>, <<"p">>}
            /\ FollowsKeyword(user_sessions[c].url, user_sessions[c].shortcode)

====
